---- MODULE Spec2Model ----
(***************************************************************************)
(* Model of gnucash_to_beancount/directives.py: the factories that turn    *)
(* Gnucash entities into Beancount directives.                             *)
(*                                                                         *)
(* Python values are tagged records ([py |-> "None"], [py |-> "str", ...]) *)
(* so that values of different Python types can be compared, as Python    *)
(* compares them.  A Python string is a sequence of characters; a          *)
(* character is a one-letter TLA+ string, except "eszett", the one         *)
(* character of the model whose upper-case form is two characters long.    *)
(* A call either returns a value or raises: see Return and Raise.          *)
(***************************************************************************)
EXTENDS Integers, Sequences, FiniteSets, TLC

VARIABLES entity, call, ret

vars == <<entity, call, ret>>

(***************************************************************************)
(* Python values                                                           *)
(***************************************************************************)
None == [py |-> "None"]

Str(s) == [py |-> "str", s |-> s]

List(xs) == [py |-> "list", items |-> xs]

\* bool(v): None and the empty string are false, any other object is true.
Truthy(v) ==
    CASE v.py = "None" -> FALSE
      [] v.py = "str" -> v.s # <<>>
      [] v.py = "list" -> v.items # <<>>
      [] OTHER -> TRUE

Return(v) == [exc |-> "none", value |-> v]

Raise(e) == [exc |-> e, value |-> None]

(***************************************************************************)
(* Characters                                                              *)
(***************************************************************************)
LowerChars ==
    <<"a", "b", "c", "d", "e", "f", "g", "h", "i", "j", "k", "l", "m",
      "n", "o", "p", "q", "r", "s", "t", "u", "v", "w", "x", "y", "z">>

UpperChars ==
    <<"A", "B", "C", "D", "E", "F", "G", "H", "I", "J", "K", "L", "M",
      "N", "O", "P", "Q", "R", "S", "T", "U", "V", "W", "X", "Y", "Z">>

Digits == {"0", "1", "2", "3", "4", "5", "6", "7", "8", "9"}

Range(f) == {f[i] : i \in DOMAIN f}

\* \w of a str pattern: letters (non-ASCII ones too), digits, underscore.
WordChars == Range(LowerChars) \cup Range(UpperChars) \cup Digits \cup {"_", "eszett"}

\* str.upper() of one character: a string, not always of length one.
Upper(c) ==
    IF c = "eszett" THEN <<"S", "S">>
    ELSE IF \E i \in DOMAIN LowerChars : LowerChars[i] = c
         THEN <<UpperChars[CHOOSE i \in DOMAIN LowerChars : LowerChars[i] = c]>>
         ELSE <<c>>

(***************************************************************************)
(* Accounts & Open                                                         *)
(***************************************************************************)
\* beancount.core.account_types.DEFAULT_ACCOUNT_TYPES
ACCOUNT_TYPES ==
    [assets      |-> Str(<<"A", "s", "s", "e", "t", "s">>),
     liabilities |-> Str(<<"L", "i", "a", "b", "i", "l", "i", "t", "i", "e", "s">>),
     equity      |-> Str(<<"E", "q", "u", "i", "t", "y">>),
     income      |-> Str(<<"I", "n", "c", "o", "m", "e">>),
     expenses    |-> Str(<<"E", "x", "p", "e", "n", "s", "e", "s">>)]

\* pairs of _get_account_types_map, each 'A B C' already split on ' '.
TypePairs(acc_types) ==
    <<  <<{"ROOT"}, None>>,
        <<{"ASSET", "BANK", "CASH", "MUTUAL", "RECEIVABLE", "STOCK", "TRADING"},
          acc_types.assets>>,
        <<{"EQUITY"}, acc_types.equity>>,
        <<{"EXPENSE"}, acc_types.expenses>>,
        <<{"INCOME"}, acc_types.income>>,
        <<{"LIABILITY", "CREDIT", "PAYABLE"}, acc_types.liabilities>>  >>

get_account_types_map(acc_types) ==
    LET pairs == TypePairs(acc_types)
        keys == UNION {pairs[i][1] : i \in DOMAIN pairs}
    IN  [gnc \in keys |->
            pairs[CHOOSE i \in DOMAIN pairs : gnc \in pairs[i][1]][2]]

ACCOUNT_TYPES_MAP == get_account_types_map(ACCOUNT_TYPES)

ACCOUNT_SEP == ":"

\* [^\w_:] matches the character.
INVALID_ACCOUNT_CHARS(c) == ~(c \in WordChars \/ c = "_" \/ c = ACCOUNT_SEP)

\* re.sub(pattern, '-', s)
re_sub(s) == [i \in 1..Len(s) |-> IF INVALID_ACCOUNT_CHARS(s[i]) THEN "-" ELSE s[i]]

\* s.split(sep): a list of len(s.count(sep)) + 1 strings, empty ones included.
RECURSIVE str_split(_, _)
str_split(s, sep) ==
    IF \E i \in 1..Len(s) : s[i] = sep
    THEN LET k == CHOOSE i \in 1..Len(s) :
                      s[i] = sep /\ \A j \in 1..(i - 1) : s[j] # sep
         IN  <<SubSeq(s, 1, k - 1)>> \o str_split(SubSeq(s, k + 1, Len(s)), sep)
    ELSE <<s>>

\* sep.join(parts)
RECURSIVE str_join(_, _)
str_join(sep, parts) ==
    IF parts = <<>> THEN <<>>
    ELSE IF Len(parts) = 1 THEN parts[1]
    ELSE parts[1] \o <<sep>> \o str_join(sep, Tail(parts))

\* [x for x in xs if x]
RECURSIVE FilterTruthy(_)
FilterTruthy(xs) ==
    IF xs = <<>> THEN <<>>
    ELSE (IF Truthy(xs[1]) THEN <<xs[1]>> ELSE <<>>) \o FilterTruthy(Tail(xs))

\* p[0].upper() + p[1:]
Capitalize(p) == Upper(p[1]) \o Tail(p)

\* account_name with one slip: "always_insert" drops the test of the first
\* segment, "no_upper" drops the upper-casing, "no_keyerror" looks the
\* category up with a default of None.
account_name_slip(account, slip) ==
    LET name == re_sub(account.fullname.s)
    IN  IF account.type \notin DOMAIN ACCOUNT_TYPES_MAP /\ slip # "no_keyerror"
        THEN Raise("KeyError")
        ELSE LET acc_type == IF account.type \in DOMAIN ACCOUNT_TYPES_MAP
                             THEN ACCOUNT_TYPES_MAP[account.type]
                             ELSE None
                 strs == str_split(name, ACCOUNT_SEP)
                 parts == [i \in 1..Len(strs) |-> Str(strs[i])]
                 inserted == IF parts[1] # acc_type \/ slip = "always_insert"
                             THEN <<acc_type>> \o parts
                             ELSE parts
                 kept == FilterTruthy(inserted)
                 caps == [i \in 1..Len(kept) |->
                            IF slip = "no_upper" THEN kept[i].s
                            ELSE Capitalize(kept[i].s)]
             IN  Return(Str(str_join(ACCOUNT_SEP, caps)))

account_name_always_insert(account) == account_name_slip(account, "always_insert")

account_name_no_upper(account) == account_name_slip(account, "no_upper")

account_name_no_keyerror(account) == account_name_slip(account, "no_keyerror")

account_name(account) ==
    LET name == re_sub(account.fullname.s)
    IN  IF account.type \notin DOMAIN ACCOUNT_TYPES_MAP
        THEN Raise("KeyError")
        ELSE LET acc_type == ACCOUNT_TYPES_MAP[account.type]
                 strs == str_split(name, ACCOUNT_SEP)
                 parts == [i \in 1..Len(strs) |-> Str(strs[i])]
                 inserted == IF parts[1] # acc_type
                             THEN <<acc_type>> \o parts
                             ELSE parts
                 kept == FilterTruthy(inserted)
                 caps == [i \in 1..Len(kept) |-> Capitalize(kept[i].s)]
             IN  Return(Str(str_join(ACCOUNT_SEP, caps)))


\* getattr(obj, k) for each k of fields.split(' '), kept when it has a value.
meta_from(obj, fields) ==
    [k \in {f \in fields : Truthy(obj[f])} |-> obj[k]]

Open(account, date) ==
    LET meta == meta_from(account, {"code", "description"})
        name == account_name(account)
        commodity == IF Truthy(account.commodity)
                     THEN List(<<account.commodity.mnemonic>>)
                     ELSE None
    IN  IF name.exc # "none" THEN Raise(name.exc)
        ELSE Return([py |-> "Open", meta |-> meta, date |-> date,
                     account |-> name.value, currencies |-> commodity,
                     booking |-> None])

Commodity(commodity, date) ==
    LET meta == meta_from(commodity, {"fullname"})
    IN  Return([py |-> "Commodity", meta |-> meta, date |-> date,
                currency |-> commodity.mnemonic])

(***************************************************************************)
(* decimal.Decimal: (-1)^sign * coef * 10^exp.  The coefficients of the    *)
(* model stay far below the 28 digits of the default context, so no result *)
(* is rounded.                                                             *)
(***************************************************************************)
Decimal(sign, coef, exp) == [py |-> "Decimal", sign |-> sign, coef |-> coef, exp |-> exp]

is_zero(d) == d.coef = 0

Amount(number, currency) == [py |-> "Amount", number |-> number, currency |-> currency]

\* a * b: the coefficients multiply, the exponents add.
DecMul(a, b) ==
    Decimal((a.sign + b.sign) % 2, a.coef * b.coef, a.exp + b.exp)

\* The exact quotient n / d with the largest exponent not above e: what
\* Decimal.__truediv__ returns when the quotient has a finite expansion
\* (d has no prime factor but 2 and 5, as every divisor of the model).
RECURSIVE ExactQuotient(_, _, _)
ExactQuotient(n, d, e) ==
    IF n % d = 0 THEN [coef |-> n \div d, exp |-> e]
    ELSE ExactQuotient(n * 10, d, e - 1)

\* a / b under the default context, which traps both signals.
DecDiv(a, b) ==
    IF is_zero(b)
    THEN IF is_zero(a) THEN Raise("InvalidOperation") ELSE Raise("DivisionByZero")
    ELSE LET q == ExactQuotient(a.coef, b.coef, a.exp - b.exp)
         IN  Return(Decimal((a.sign + b.sign) % 2, q.coef, q.exp))

DecAbs(d) == Decimal(0, d.coef, d.exp)

Price(price) ==
    LET meta == <<>>
        date == price.date
        currency == price.commodity.mnemonic
        amount == Amount(price.value, price.currency.mnemonic)
    IN  Return([py |-> "Price", meta |-> meta, date |-> date,
                currency |-> currency, amount |-> amount])

(***************************************************************************)
(* Postings                                                                *)
(***************************************************************************)
units_for(split) ==
    LET number == DecMul(split.quantity, Decimal(0, 10, -1))
    IN  IF split.account.commodity = None
        THEN Raise("AttributeError")
        ELSE Return(Amount(number, split.account.commodity.mnemonic))

\* price_for with one slip: "no_same_check" drops the test of the two
\* commodities, "only_InvalidOperation" and "only_DivisionByZero" catch one
\* of the two exceptions.
price_for_slip(split, slip) ==
    LET acc_comm == split.account.commodity
        txn_comm == split.transaction.currency
        quotient == DecDiv(split.value, split.quantity)
        currency == txn_comm.mnemonic
        caught == CASE slip = "only_InvalidOperation" -> {"InvalidOperation"}
                    [] slip = "only_DivisionByZero" -> {"DivisionByZero"}
                    [] OTHER -> {"DivisionByZero", "InvalidOperation"}
    IN  IF acc_comm = txn_comm /\ slip # "no_same_check" THEN Return(None)
        ELSE IF quotient.exc \in caught
        THEN IF is_zero(split.quantity)
             THEN Return(Amount(Decimal(0, 0, 0), currency))
             ELSE Raise("UnboundLocalError")
        ELSE IF quotient.exc # "none" THEN Raise(quotient.exc)
        ELSE Return(Amount(DecAbs(quotient.value), currency))

price_for_no_same_check(split) == price_for_slip(split, "no_same_check")

price_for_only_InvalidOperation(split) == price_for_slip(split, "only_InvalidOperation")

price_for_only_DivisionByZero(split) == price_for_slip(split, "only_DivisionByZero")

price_for(split) ==
    LET acc_comm == split.account.commodity
        txn_comm == split.transaction.currency
        quotient == DecDiv(split.value, split.quantity)
        currency == txn_comm.mnemonic
    IN  IF acc_comm = txn_comm THEN Return(None)
        ELSE IF quotient.exc \in {"DivisionByZero", "InvalidOperation"}
        THEN IF is_zero(split.quantity)
             THEN Return(Amount(Decimal(0, 0, 0), currency))
             ELSE Raise("UnboundLocalError")
        ELSE Return(Amount(DecAbs(quotient.value), currency))

Posting(split) ==
    LET meta == meta_from(split, {"memo"})
        account == account_name(split.account)
        cost == None
        flag == None
        units == units_for(split)
        price == price_for(split)
    IN  IF account.exc # "none" THEN Raise(account.exc)
        ELSE IF units.exc # "none" THEN Raise(units.exc)
        ELSE IF price.exc # "none" THEN Raise(price.exc)
        ELSE Return([py |-> "Posting", account |-> account.value,
                     units |-> units.value, cost |-> cost,
                     price |-> price.value, flag |-> flag, meta |-> meta])

Transaction(txn, postings) ==
    LET meta == meta_from(txn, {"num", "notes"})
        date == txn.post_date
        flag == <<"*">>
        payee == <<>>
        narration == txn.description
        list == IF Truthy(postings) THEN postings ELSE List(<<>>)
    IN  Return([py |-> "Transaction", meta |-> meta, date |-> date,
                flag |-> Str(flag), payee |-> Str(payee),
                narration |-> narration, tags |-> None, links |-> None,
                postings |-> list])

\* TransactionWithPostings with the postings in reverse split order.
TransactionWithPostings_reversed(txn) ==
    LET n == Len(txn.splits)
        made == [i \in 1..n |-> Posting(txn.splits[n + 1 - i])]
        failed == {i \in 1..n : made[i].exc # "none"}
    IN  IF failed # {}
        THEN Raise(made[CHOOSE i \in failed : \A j \in failed : i <= j].exc)
        ELSE Transaction(txn, List([i \in 1..n |-> made[i].value]))

\* [Posting(split) for split in txn.splits]: the first split that raises
\* ends the comprehension with its exception.
TransactionWithPostings(txn) ==
    LET made == [i \in 1..Len(txn.splits) |-> Posting(txn.splits[i])]
        failed == {i \in 1..Len(made) : made[i].exc # "none"}
    IN  IF failed # {}
        THEN Raise(made[CHOOSE i \in failed : \A j \in failed : i <= j].exc)
        ELSE Transaction(txn, List([i \in 1..Len(made) |-> made[i].value]))

(***************************************************************************)
(* The entities the driver hands to the factories                          *)
(***************************************************************************)
MaxPieces == 4

MaxExp == 1

MaxSplits == 2

Chars(str) == str.s

\* What account paths are made of: the separator, two root names, a
\* lower-case letter, an invalid character, a non-ASCII letter.
Pieces ==
    { <<ACCOUNT_SEP>>, Chars(ACCOUNT_TYPES.assets), Chars(ACCOUNT_TYPES.income),
      <<"a">>, <<" ">>, <<"eszett">> }

RECURSIVE PathsOf(_)
PathsOf(n) ==
    IF n = 0 THEN {<<>>}
    ELSE LET shorter == PathsOf(n - 1)
         IN  shorter \cup {p \o q : p \in shorter, q \in Pieces}

Paths == PathsOf(MaxPieces)

\* The categories of the table and one Gnucash category it lacks.
AccountTypeTags == DOMAIN ACCOUNT_TYPES_MAP \cup {"CURRENCY"}

Dates == {"2024-01-01", "2024-01-02"}

USD == [py |-> "Commodity", mnemonic |-> Str(<<"U", "S", "D">>),
        fullname |-> Str(<<"U", "S", " ", "D", "o", "l", "l", "a", "r">>)]

EUR == [py |-> "Commodity", mnemonic |-> Str(<<"E", "U", "R">>), fullname |-> None]

XAU == [py |-> "Commodity", mnemonic |-> Str(<<"X", "A", "U">>), fullname |-> Str(<<>>)]

Currencies == {USD, EUR}

Texts(c) == {None, Str(<<>>), Str(<<c>>)}

AccountOf(path, type, code, description, commodity) ==
    [py |-> "Account", fullname |-> Str(path), type |-> type, code |-> code,
     description |-> description, commodity |-> commodity]

\* Every path under every category, the other fields fixed.
NameAccounts == {AccountOf(p, t, None, None, USD) : p \in Paths, t \in AccountTypeTags}

SamplePaths ==
    { Chars(ACCOUNT_TYPES.assets) \o <<ACCOUNT_SEP, "a">>, <<"a", " ">> }

SampleTypes == {"BANK", "EXPENSE", "ROOT", "CURRENCY"}

\* A few paths and categories, every combination of the other fields.
OpenAccounts ==
    {AccountOf(p, t, c, d, m) :
        p \in SamplePaths, t \in SampleTypes, c \in Texts("7"), d \in Texts("d"),
        m \in Currencies \cup {None}}

SplitAccounts ==
    {AccountOf(p, t, None, None, m) :
        p \in SamplePaths, t \in SampleTypes, m \in Currencies \cup {None}}

DecimalCoefs == {0, 2, 5}

Decimals ==
    {Decimal(s, c, e) : s \in {0, 1}, c \in DecimalCoefs, e \in (0 - MaxExp)..MaxExp}

SplitOf(account, currency, quantity, value, memo) ==
    [py |-> "Split", account |-> account, transaction |-> [currency |-> currency],
     quantity |-> quantity, value |-> value, memo |-> memo]

Splits ==
    {SplitOf(a, c, q, v, m) :
        a \in SplitAccounts, c \in Currencies, q \in Decimals, v \in Decimals,
        m \in {None, Str(<<"m">>)}}

\* The splits transactions are built from: same and foreign currency, zero
\* quantity, an account without commodity, a category outside the table.
TxnSplits(currency) ==
    LET checking == Chars(ACCOUNT_TYPES.assets) \o <<ACCOUNT_SEP, "a">>
    IN  { SplitOf(AccountOf(checking, "BANK", None, None, USD), currency,
                  Decimal(1, 2, 0), Decimal(1, 2, 0), None),
          SplitOf(AccountOf(<<"a", " ">>, "EXPENSE", None, None, EUR), currency,
                  Decimal(0, 5, 0), Decimal(0, 2, 0), Str(<<"m">>)),
          SplitOf(AccountOf(<<"a">>, "INCOME", None, None, EUR), currency,
                  Decimal(0, 0, 0), Decimal(0, 0, 0), None),
          SplitOf(AccountOf(<<"a">>, "ROOT", None, None, None), currency,
                  Decimal(0, 2, 0), Decimal(0, 2, 0), None),
          SplitOf(AccountOf(<<"a">>, "CURRENCY", None, None, USD), currency,
                  Decimal(0, 2, 0), Decimal(0, 2, 0), None) }

RECURSIVE SeqsUpTo(_, _)
SeqsUpTo(S, n) ==
    IF n = 0 THEN {<<>>}
    ELSE LET shorter == SeqsUpTo(S, n - 1)
         IN  shorter \cup {Append(xs, x) : xs \in shorter, x \in S}

TxnsIn(c) ==
    {[py |-> "Transaction", post_date |-> d, description |-> Str(<<"R", "e", "n", "t">>),
      num |-> n, notes |-> t, currency |-> c, splits |-> ss] :
        d \in {"2024-01-01"}, n \in {None, Str(<<"9">>)}, t \in {Str(<<>>), Str(<<"t">>)},
        ss \in SeqsUpTo(TxnSplits(c), MaxSplits)}

Txns == UNION {TxnsIn(c) : c \in Currencies}

Prices ==
    {[py |-> "Price", date |-> d, commodity |-> k, currency |-> c, value |-> v] :
        d \in Dates, k \in {USD, EUR, XAU}, c \in Currencies, v \in Decimals}

\* The postings argument of Transaction: absent, empty, or built postings.
PostingArgs(txn) ==
    LET made == {Posting(s) : s \in TxnSplits(txn.currency)}
        good == {m.value : m \in {x \in made : x.exc = "none"}}
    IN  {None} \cup {List(ps) : ps \in SeqsUpTo(good, 1)}

Pending == [exc |-> "pending", value |-> None]

Idle == [op |-> "none"]

AccountEntities == {[kind |-> "account", account |-> a] : a \in NameAccounts \cup OpenAccounts}

SplitEntities == {[kind |-> "split", split |-> s] : s \in Splits}

TxnEntities == {[kind |-> "transaction", txn |-> t] : t \in Txns}

CommodityEntities == {[kind |-> "commodity", commodity |-> k] : k \in {USD, EUR, XAU}}

PriceEntities == {[kind |-> "price", price |-> p] : p \in Prices}

(***************************************************************************)
(* The driver: one entity, one call of a factory on it.                    *)
(***************************************************************************)
InitWith(entities) ==
    /\ entity \in entities
    /\ call = Idle
    /\ ret = Pending

Init ==
    InitWith(AccountEntities \cup SplitEntities \cup TxnEntities
             \cup CommodityEntities \cup PriceEntities)

CallAccountName ==
    /\ call = Idle
    /\ entity.kind = "account"
    /\ call' = [op |-> "account_name"]
    /\ ret' = account_name(entity.account)
    /\ UNCHANGED entity

CallOpen ==
    /\ call = Idle
    /\ entity.kind = "account"
    /\ \E date \in Dates :
        /\ call' = [op |-> "Open", date |-> date]
        /\ ret' = Open(entity.account, date)
    /\ UNCHANGED entity

CallCommodity ==
    /\ call = Idle
    /\ entity.kind = "commodity"
    /\ \E date \in Dates :
        /\ call' = [op |-> "Commodity", date |-> date]
        /\ ret' = Commodity(entity.commodity, date)
    /\ UNCHANGED entity

CallPrice ==
    /\ call = Idle
    /\ entity.kind = "price"
    /\ call' = [op |-> "Price"]
    /\ ret' = Price(entity.price)
    /\ UNCHANGED entity

CallUnitsFor ==
    /\ call = Idle
    /\ entity.kind = "split"
    /\ call' = [op |-> "units_for"]
    /\ ret' = units_for(entity.split)
    /\ UNCHANGED entity

CallPriceFor ==
    /\ call = Idle
    /\ entity.kind = "split"
    /\ call' = [op |-> "price_for"]
    /\ ret' = price_for(entity.split)
    /\ UNCHANGED entity

CallPosting ==
    /\ call = Idle
    /\ entity.kind = "split"
    /\ call' = [op |-> "Posting"]
    /\ ret' = Posting(entity.split)
    /\ UNCHANGED entity

CallTransaction ==
    /\ call = Idle
    /\ entity.kind = "transaction"
    /\ \E postings \in PostingArgs(entity.txn) :
        /\ call' = [op |-> "Transaction", postings |-> postings]
        /\ ret' = Transaction(entity.txn, postings)
    /\ UNCHANGED entity

CallTransactionWithPostings ==
    /\ call = Idle
    /\ entity.kind = "transaction"
    /\ call' = [op |-> "TransactionWithPostings"]
    /\ ret' = TransactionWithPostings(entity.txn)
    /\ UNCHANGED entity

NextAccount == CallAccountName \/ CallOpen

NextSplit == CallUnitsFor \/ CallPriceFor \/ CallPosting

NextTxn == CallTransaction \/ CallTransactionWithPostings

Next ==
    \/ CallAccountName
    \/ CallOpen
    \/ CallCommodity
    \/ CallPrice
    \/ CallUnitsFor
    \/ CallPriceFor
    \/ CallPosting
    \/ CallTransaction
    \/ CallTransactionWithPostings

Spec == Init /\ [][Next]_vars

SpecAccount == InitWith(AccountEntities) /\ [][NextAccount]_vars

SpecSplit == InitWith(SplitEntities) /\ [][NextSplit]_vars

SpecTxn == InitWith(TxnEntities) /\ [][NextTxn]_vars

(***************************************************************************)
(* Properties                                                              *)
(***************************************************************************)
InTable(account) == account.type \in DOMAIN ACCOUNT_TYPES_MAP

\* The five root segments of a Beancount account name.
RootSegments == {Chars(ACCOUNT_TYPES[k]) : k \in DOMAIN ACCOUNT_TYPES}

\* The segments of an identifier; the empty identifier has none.
SegmentsOf(name) == IF name = <<>> THEN <<>> ELSE str_split(name, ACCOUNT_SEP)

NonEmpty(segs) == SelectSeq(segs, LAMBDA p : p # <<>>)

\* The segments of a source path, sanitized; those that are not empty; and
\* these with the first character upper-cased.
SourceSegments(account) == str_split(re_sub(account.fullname.s), ACCOUNT_SEP)

Normalized(account) ==
    LET src == NonEmpty(SourceSegments(account))
    IN  [i \in 1..Len(src) |-> Upper(src[i][1]) \o Tail(src[i])]

StartsWithOwnRoot(account) ==
    /\ InTable(account)
    /\ Str(str_split(account.fullname.s, ACCOUNT_SEP)[1]) = ACCOUNT_TYPES_MAP[account.type]

Translated == call.op = "account_name" /\ ret.exc = "none"

\* C1: for every account whose category is in the table (ROOT included) and
\* every path, account_name returns an identifier whose first segment is one
\* of Assets, Equity, Expenses, Income, Liabilities.
C1_FirstSegmentIsRoot ==
    (call.op = "account_name" /\ InTable(entity.account))
        => /\ ret.exc = "none"
           /\ str_split(ret.value.s, ACCOUNT_SEP)[1] \in RootSegments

ForeignZeroQuantity ==
    /\ call.op = "price_for"
    /\ entity.split.account.commodity # entity.split.transaction.currency
    /\ is_zero(entity.split.quantity)

ZeroPrice == Return(Amount(Decimal(0, 0, 0), entity.split.transaction.currency.mnemonic))

C3_SameSegmentCount ==
    (call.op = "account_name" /\ StartsWithOwnRoot(entity.account))
        => /\ ret.exc = "none"
           /\ Len(SegmentsOf(ret.value.s)) = Len(SourceSegments(entity.account))
           /\ SegmentsOf(ret.value.s) = Normalized(entity.account)

\* C3 as amended: when the path's first segment is already the root of the
\* account's category, account_name returns the sanitized, upper-cased
\* segments of the path without its empty segments: no segment is added,
\* and exactly the empty ones are removed.
C3_NonEmptySegmentsKept ==
    (call.op = "account_name" /\ StartsWithOwnRoot(entity.account))
        => /\ ret.exc = "none"
           /\ SegmentsOf(ret.value.s) = Normalized(entity.account)
           /\ Len(SegmentsOf(ret.value.s))
                = Cardinality({i \in DOMAIN SourceSegments(entity.account) :
                                  SourceSegments(entity.account)[i] # <<>>})

C3_Witness ==
    /\ Translated
    /\ StartsWithOwnRoot(entity.account)
    /\ Len(SegmentsOf(ret.value.s)) >= 2
    /\ Len(SegmentsOf(ret.value.s)) < Len(SourceSegments(entity.account))
    /\ ret.value.s # entity.account.fullname.s

SameRoot(t, u) ==
    /\ t \in DOMAIN ACCOUNT_TYPES_MAP
    /\ u \in DOMAIN ACCOUNT_TYPES_MAP
    /\ ACCOUNT_TYPES_MAP[t] = ACCOUNT_TYPES_MAP[u]

SameCommodity == entity.split.account.commodity = entity.split.transaction.currency

\* C5: price_for returns None whenever the split's account commodity is the
\* transaction's currency, whatever quantity and value are, and a posting
\* carries a price only when the two differ.
C5_PriceOnlyWhenForeign ==
    /\ (call.op = "price_for" /\ SameCommodity) => ret = Return(None)
    /\ (call.op = "Posting" /\ ret.exc = "none" /\ ret.value.price # None)
            => ~SameCommodity
    /\ (call.op = "Posting" /\ ret.exc = "none" /\ SameCommodity)
            => ret.value.price = None

C5_Witness ==
    /\ call.op = "Posting"
    /\ SameCommodity
    /\ is_zero(entity.split.quantity)
    /\ ~is_zero(entity.split.value)
    /\ ret.exc = "none"
    /\ ret.value.price = None

\* C6: for a split in a foreign commodity whose quantity and value are both
\* zero, price_for does not fail and returns the amount zero in the
\* transaction's currency.
C6_ZeroOverZeroPricedZero ==
    (ForeignZeroQuantity /\ is_zero(entity.split.value)) => ret = ZeroPrice

C6_Witness ==
    /\ ForeignZeroQuantity
    /\ is_zero(entity.split.value)
    /\ ret.exc = "none"
    /\ ret.value.py = "Amount"

\* a and b are the same number: equal sign (or both zero) and equal
\* coefficients once brought to the smaller exponent.
RECURSIVE Pow10(_)
Pow10(n) == IF n = 0 THEN 1 ELSE 10 * Pow10(n - 1)

SameValue(a, b) ==
    LET e == IF a.exp < b.exp THEN a.exp ELSE b.exp
    IN  /\ a.coef * Pow10(a.exp - e) = b.coef * Pow10(b.exp - e)
        /\ (a.coef # 0 => a.sign = b.sign)

\* C7: units_for returns the quantity, unchanged in value, with at least one
\* fractional digit (an exponent of -1 or less), in the account commodity.
C7_UnitsHaveFractionalDigit ==
    (call.op = "units_for" /\ entity.split.account.commodity # None)
        => /\ ret.exc = "none"
           /\ ret.value.currency = entity.split.account.commodity.mnemonic
           /\ SameValue(ret.value.number, entity.split.quantity)
           /\ ret.value.number.exp <= -1

\* C8: every segment of the identifier account_name returns is non-empty and
\* is a non-empty segment of the sanitized path with its first character
\* upper-cased and the rest unchanged, or the inserted root.
C8_SegmentsNonEmptyCapitalized ==
    Translated =>
        LET segs == SegmentsOf(ret.value.s)
            norm == Normalized(entity.account)
            root == ACCOUNT_TYPES_MAP[entity.account.type]
        IN  /\ \A i \in DOMAIN segs :
                /\ segs[i] # <<>>
                /\ Upper(segs[i][1]) = <<segs[i][1]>>
            /\ \/ segs = norm
               \/ root # None /\ segs = <<root.s>> \o norm

C8_Witness ==
    /\ Translated
    /\ Len(SourceSegments(entity.account)) > Len(NonEmpty(SourceSegments(entity.account)))
    /\ \E i \in DOMAIN SegmentsOf(ret.value.s) :
          /\ Len(SegmentsOf(ret.value.s)[i]) >= 2
          /\ \E p \in Range(SourceSegments(entity.account)) :
                /\ p # <<>>
                /\ p # SegmentsOf(ret.value.s)[i]
                /\ Tail(p) = Tail(SegmentsOf(ret.value.s)[i])

\* C9: for an account whose category is not in the table, account_name
\* raises KeyError, and so do Open and Posting: none returns a value.
C9_UnknownCategoryRaises ==
    /\ (call.op \in {"account_name", "Open"} /\ ~InTable(entity.account))
            => ret = Raise("KeyError")
    /\ (call.op = "Posting" /\ ~InTable(entity.split.account))
            => ret = Raise("KeyError")

C9_Witness ==
    /\ call.op = "Posting"
    /\ ~InTable(entity.split.account)
    /\ entity.split.account.commodity = None
    /\ ret.exc = "KeyError"

\* C10: TransactionWithPostings returns a Transaction whose postings are
\* Posting of each split, in split order (none for a transaction without
\* splits), with flag '*' and an empty payee; it raises only when Posting
\* raises for one of the splits.
C10_OnePostingPerSplit ==
    call.op = "TransactionWithPostings" =>
        LET splits == entity.txn.splits
            made == [i \in DOMAIN splits |-> Posting(splits[i])]
        IN  IF \A i \in DOMAIN made : made[i].exc = "none"
            THEN /\ ret.exc = "none"
                 /\ ret.value.py = "Transaction"
                 /\ ret.value.flag = Str(<<"*">>)
                 /\ ret.value.payee = Str(<<>>)
                 /\ ret.value.postings.py = "list"
                 /\ Len(ret.value.postings.items) = Len(splits)
                 /\ \A i \in DOMAIN splits :
                        ret.value.postings.items[i] = made[i].value
            ELSE ret.exc # "none"

C10_Witness ==
    /\ call.op = "TransactionWithPostings"
    /\ ret.exc = "none"
    /\ Len(entity.txn.splits) = 2
    /\ Len(ret.value.postings.items) = 2
    /\ ret.value.postings.items[1] # ret.value.postings.items[2]
    /\ ret.value.postings.items[2].price # None

====
